---- MODULE Spec2Model ----
(***************************************************************************)
(* A model of the datathon helper package (src/datathon.py):               *)
(*   make_colormap        - builds the segment data of a colour gradient   *)
(*   plot_model_pred_2d   - draws a classifier's decision surface          *)
(*   create_graph         - exports a decision tree as a coloured graph    *)
(*   prune                - suppresses low-sample splits of a fitted tree  *)
(* The four functions share no state, so each has its own specification    *)
(* (SpecPrune, SpecColormap, SpecGraph, SpecPlot) in which the variables   *)
(* of the other three stay at their idle values.                           *)
(***************************************************************************)
EXTENDS Integers, Sequences, FiniteSets, TLC

VARIABLES
    \* ---- prune: the fitted model dt and its tree_ arrays
    n_node_samples,    \* dt.tree_.n_node_samples, indexed 0..node_count-1
    children_left,     \* dt.tree_.children_left
    children_right,    \* dt.tree_.children_right
    min_samples_leaf,  \* dt.min_samples_leaf
    stdout,            \* what prune has printed so far
    calls,             \* number of prune calls made
    req,               \* the min_samples_leaf argument of the last call
    init_left,         \* children_left of the model as fitted
    init_right,        \* children_right of the model as fitted
    init_msl,          \* min_samples_leaf of the model as fitted
    max_req,           \* largest argument of any call so far
    mutated,           \* some call so far took the mutating branch
    \* ---- make_colormap
    seq,               \* the argument seq
    cdict,             \* the segment data handed to LinearSegmentedColormap
    lut,               \* the colormap's lookup table, one per channel
    cm_pc,             \* "input", "built" or "called"
    at,                \* the position the colormap was last evaluated at
    colour,            \* the colour it returned there
    \* ---- create_graph
    nodes,             \* graph.get_node_list(): each node's label and fill colour
    exported,          \* the same nodes as parsed from the exporter's output
    cmap,              \* the argument cmap
    g_pc,              \* "input" or "done"
    g_result,          \* "none", "returned" or the exception raised
    rendered,          \* graph.create_png() was called
    \* ---- plot_model_pred_2d
    p_pc,              \* the statement the call has reached
    p_args,            \* which of cm, cbar, xlabel, ylabel the caller passed
    log,               \* the plotting calls made so far, in order
    p_err,             \* "none", or whose exception reached the caller
    predict_calls,     \* number of calls of mdl.predict
    predict_rows,      \* rows of the matrix mdl.predict was called with
    cm_source          \* "unset", "given" or "default"

pruneVars == <<n_node_samples, children_left, children_right, min_samples_leaf,
               stdout, calls, req, init_left, init_right, init_msl, max_req,
               mutated>>

cmapVars == <<seq, cdict, lut, cm_pc, at, colour>>

graphVars == <<nodes, exported, cmap, g_pc, g_result, rendered>>

plotVars == <<p_pc, p_args, log, p_err, predict_calls, predict_rows, cm_source>>

vars == <<pruneVars, cmapVars, graphVars, plotVars>>

otherThanPrune == <<cmapVars, graphVars, plotVars>>

otherThanColormap == <<pruneVars, graphVars, plotVars>>

otherThanGraph == <<pruneVars, cmapVars, plotVars>>

otherThanPlot == <<pruneVars, cmapVars, graphVars>>

\* The values a function's variables keep in the specifications of the others.
IdlePrune ==
    /\ n_node_samples = <<>>
    /\ children_left = <<>>
    /\ children_right = <<>>
    /\ init_left = <<>>
    /\ init_right = <<>>
    /\ min_samples_leaf = 0
    /\ init_msl = 0
    /\ stdout = <<>>
    /\ calls = 0
    /\ req = 0
    /\ max_req = 0
    /\ mutated = FALSE

IdleColormap ==
    /\ seq = <<>>
    /\ cdict = <<>>
    /\ lut = <<>>
    /\ cm_pc = "idle"
    /\ at = 0
    /\ colour = <<>>

IdleGraph ==
    /\ nodes = <<>>
    /\ exported = <<>>
    /\ cmap = <<>>
    /\ g_pc = "idle"
    /\ g_result = "none"
    /\ rendered = FALSE

IdlePlot ==
    /\ p_pc = "idle"
    /\ p_args = <<>>
    /\ log = <<>>
    /\ p_err = "none"
    /\ predict_calls = 0
    /\ predict_rows = 0
    /\ cm_source = "unset"

\* ------------------------------------------------------------------ bounds
MaxSamples == 5     \* samples reaching the root of a fitted tree
MaxDepth == 2       \* depth of a fitted tree
MaxThreshold == 4   \* largest min_samples_leaf fitted with or asked for
MaxCalls == 3       \* prune calls in one behaviour
PosScale == 4       \* positions are k / PosScale, k in 0..PosScale
MaxStops == 2       \* explicit positions in the argument of make_colormap
MaxTreeNodes == 2   \* tree nodes in the exported graph
MaxCount == 2       \* samples of one class reaching a node
MaxRows == 2        \* rows of the cmap array

\* ------------------------------------------------------------------ prune
\* The sentinel prune writes into the child arrays (datathon.py:145-146);
\* it is also sklearn's TREE_LEAF, the child index of a fitted leaf.
TREE_LEAF == -1

Notice == "Decision tree is pruned at an equal or higher level."

Max(a, b) == IF a >= b THEN a ELSE b

\* Fitted trees in sklearn's layout: nodes in preorder, a split's left child
\* right after it.  A subtree is a sequence of nodes whose child fields are
\* offsets from the node itself (TREE_LEAF for a leaf).
RECURSIVE Subtrees(_, _)
Subtrees(s, d) ==
    {<<[n |-> s, l |-> TREE_LEAF, r |-> TREE_LEAF]>>}
    \cup (IF d = 0 THEN {}
          ELSE UNION {{<<[n |-> s, l |-> 1, r |-> 1 + Len(L)]>> \o L \o R :
                          L \in Subtrees(a, d - 1), R \in Subtrees(s - a, d - 1)} :
                      a \in 1..(s - 1)})

NodeIds(t) == 0..(Len(t) - 1)

SamplesOf(t) == [i \in NodeIds(t) |-> t[i + 1].n]

LeftOf(t) ==
    [i \in NodeIds(t) |-> IF t[i + 1].l = TREE_LEAF THEN TREE_LEAF ELSE i + t[i + 1].l]

RightOf(t) ==
    [i \in NodeIds(t) |-> IF t[i + 1].r = TREE_LEAF THEN TREE_LEAF ELSE i + t[i + 1].r]

\* A tree fitted with min_samples_leaf = t0 has at least t0 samples in every leaf.
FittedWith(t, t0) ==
    \A i \in 1..Len(t) : t[i].l = TREE_LEAF => t[i].n >= t0

FittedTrees == UNION {Subtrees(s, MaxDepth) : s \in 1..MaxSamples}

\* datathon.py:132  if dt.min_samples_leaf >= min_samples_leaf
AlreadyPrunedAlways(msl, m) == FALSE

AlreadyPrunedStrict(msl, m) == msl > m

AlreadyPruned(msl, m) == msl >= m

\* datathon.py:142  if n_samples <= min_samples_leaf
BelowThresholdExact(n_samples, m) == n_samples = m

BelowThresholdStrict(n_samples, m) == n_samples < m

BelowThreshold(n_samples, m) == n_samples <= m

\* datathon.py:140-146  the loop over the nodes, applied to one child array
PruneChildren(children, samples, m) ==
    [i \in DOMAIN children |->
        IF BelowThreshold(samples[i], m) THEN TREE_LEAF ELSE children[i]]

InitPrune ==
    /\ \E t \in FittedTrees, t0 \in 1..MaxThreshold :
          /\ FittedWith(t, t0)
          /\ n_node_samples = SamplesOf(t)
          /\ children_left = LeftOf(t)
          /\ children_right = RightOf(t)
          /\ init_left = LeftOf(t)
          /\ init_right = RightOf(t)
          /\ min_samples_leaf = t0
          /\ init_msl = t0
    /\ stdout = <<>>
    /\ calls = 0
    /\ req = 0
    /\ max_req = 0
    /\ mutated = FALSE

\* prune(dt, min_samples_leaf=m), datathon.py:126-146
Prune(m) ==
    /\ calls < MaxCalls
    /\ calls' = calls + 1
    /\ req' = m
    /\ max_req' = IF calls = 0 THEN m ELSE Max(max_req, m)
    /\ IF AlreadyPruned(min_samples_leaf, m)
       THEN /\ stdout' = Append(stdout, Notice)
            /\ UNCHANGED <<min_samples_leaf, children_left, children_right, mutated>>
       ELSE /\ min_samples_leaf' = m
            /\ children_left' = PruneChildren(children_left, n_node_samples, m)
            /\ children_right' = PruneChildren(children_right, n_node_samples, m)
            /\ mutated' = TRUE
            /\ UNCHANGED stdout
    /\ UNCHANGED <<n_node_samples, init_left, init_right, init_msl>>
    /\ UNCHANGED otherThanPrune

PruneCall == \E m \in 0..MaxThreshold : Prune(m)

NextPrune == PruneCall

StartPrune == InitPrune /\ IdleColormap /\ IdleGraph /\ IdlePlot

SpecPrune == StartPrune /\ [][NextPrune]_vars

\* ---------------------------------------------------------- prune: claims
Nodes == DOMAIN n_node_samples

\* A step that is one call of prune.
IsPruneCall == calls' = calls + 1

\* C1: a call prune(dt, m) with m <= dt.min_samples_leaf leaves
\* min_samples_leaf and every entry of children_left and children_right
\* unchanged, prints the "already pruned" notice, and completes.
C1_NoOpWhenNotLarger ==
    [][(IsPruneCall /\ req' <= min_samples_leaf) =>
          /\ min_samples_leaf' = min_samples_leaf
          /\ children_left' = children_left
          /\ children_right' = children_right
          /\ stdout' = Append(stdout, Notice)]_vars

\* Thresholds 2 then 1: the second call found the tree pruned at a higher level.
C1_Witness ==
    /\ mutated
    /\ calls >= 2
    /\ req < min_samples_leaf
    /\ stdout # <<>>
    /\ \E i \in Nodes : init_left[i] # TREE_LEAF /\ children_left[i] = TREE_LEAF

\* C2: a call prune(dt, m) with m > dt.min_samples_leaf stores m and, for
\* every node i, sets both child indices to -1 when n_node_samples[i] <= m
\* and leaves both unchanged when n_node_samples[i] > m.
C2_MutatingCall ==
    [][(IsPruneCall /\ req' > min_samples_leaf) =>
          /\ min_samples_leaf' = req'
          /\ stdout' = stdout
          /\ \A i \in Nodes :
                /\ n_node_samples[i] <= req' =>
                      children_left'[i] = -1 /\ children_right'[i] = -1
                /\ n_node_samples[i] > req' =>
                      /\ children_left'[i] = children_left[i]
                      /\ children_right'[i] = children_right[i]]_vars

\* One mutating call that cut a split holding exactly m samples and kept another.
C2_Witness ==
    /\ calls = 1
    /\ mutated
    /\ min_samples_leaf = req
    /\ \E i \in Nodes :
          /\ n_node_samples[i] = req
          /\ init_left[i] # TREE_LEAF
          /\ children_left[i] = TREE_LEAF
          /\ children_right[i] = TREE_LEAF
    /\ \E j \in Nodes : children_left[j] # TREE_LEAF /\ children_left[j] = init_left[j]

\* C3: over any sequence of prune calls min_samples_leaf never decreases and
\* a child index that is -1 is never set back to another value.
C3_Monotonic ==
    [][/\ min_samples_leaf' >= min_samples_leaf
       /\ \A i \in Nodes :
             /\ children_left[i] = -1 => children_left'[i] = -1
             /\ children_right[i] = -1 => children_right'[i] = -1]_vars

\* A split was cut, and a later call asked for a smaller threshold.
C3_Witness ==
    /\ calls >= 2
    /\ req < min_samples_leaf
    /\ req < max_req
    /\ \E i \in Nodes : init_right[i] # TREE_LEAF /\ children_right[i] = TREE_LEAF

\* C9: after any sequence of calls the model equals the fitted model after
\* the single call prune(dt, max(m1..mk)); and once some call has mutated,
\* every node with n_node_samples <= dt.min_samples_leaf has both child
\* indices equal to -1.
C9_SequenceEqualsMax ==
    calls > 0 =>
        /\ IF init_msl >= max_req
           THEN /\ min_samples_leaf = init_msl
                /\ children_left = init_left
                /\ children_right = init_right
           ELSE /\ min_samples_leaf = max_req
                /\ children_left =
                      [i \in Nodes |-> IF n_node_samples[i] <= max_req
                                       THEN -1 ELSE init_left[i]]
                /\ children_right =
                      [i \in Nodes |-> IF n_node_samples[i] <= max_req
                                       THEN -1 ELSE init_right[i]]
        /\ mutated =>
              \A i \in Nodes :
                  n_node_samples[i] <= min_samples_leaf =>
                      children_left[i] = -1 /\ children_right[i] = -1

\* Three calls, two of them mutating with different thresholds, the largest
\* not the last, and splits cut by the smaller one.
C9_Witness ==
    /\ calls = 3
    /\ mutated
    /\ req < max_req
    /\ stdout # <<>>
    /\ init_msl < max_req
    /\ \E i \in Nodes :
          /\ init_left[i] # TREE_LEAF
          /\ children_left[i] = TREE_LEAF
          /\ n_node_samples[i] < max_req

\* The fitted tree is well formed: a child has strictly fewer samples than
\* its parent and the two children's counts sum to the parent's.
WellFormed ==
    \A i \in Nodes :
        init_left[i] # TREE_LEAF =>
            /\ init_right[i] # TREE_LEAF
            /\ n_node_samples[init_left[i]] < n_node_samples[i]
            /\ n_node_samples[init_right[i]] < n_node_samples[i]
            /\ n_node_samples[init_left[i]] + n_node_samples[init_right[i]]
                 = n_node_samples[i]

\* The nodes inference can reach from node i through non-sentinel children.
RECURSIVE Reach(_)
Reach(i) ==
    {i}
    \cup (IF children_left[i] = TREE_LEAF THEN {} ELSE Reach(children_left[i]))
    \cup (IF children_right[i] = TREE_LEAF THEN {} ELSE Reach(children_right[i]))

EffectiveLeaf(i) == children_left[i] = TREE_LEAF /\ children_right[i] = TREE_LEAF

\* C10: after a mutating prune(dt, m) on a well-formed tree whose root has
\* at least m samples, every effective leaf (a node reachable from the root
\* whose child indices are -1) has n_node_samples >= m.
C10_LeavesHonourThreshold ==
    (mutated /\ WellFormed /\ n_node_samples[0] >= min_samples_leaf) =>
        \A i \in Reach(0) : EffectiveLeaf(i) => n_node_samples[i] >= min_samples_leaf

\* ---------------------------------------------------------- make_colormap
\* Python's None, the channels of the two padding triples (datathon.py:23).
None == -1

Min(a, b) == IF a <= b THEN a ELSE b

Channels == <<"red", "green", "blue">>

\* An item of seq: a float position k / PosScale, or an RGB tuple whose
\* channels are in thirds: 0, 1, 2 stand for 0.0, 0.5, 1.0.
Float(k) == [isfloat |-> TRUE, x |-> k, rgb |-> <<>>]

Tuple(t) == [isfloat |-> FALSE, x |-> 0, rgb |-> t]

Palette == {<<2, 0, 0>>, <<0, 0, 2>>, <<1, 2, 1>>}

\* The arguments the docstring allows: tuples and floats alternating, starting
\* and ending with a tuple, the floats increasing and inside (0,1).
RECURSIVE Alternating(_, _)
Alternating(stops, lo) ==
    IF stops = 0 THEN {<<Tuple(t)>> : t \in Palette}
    ELSE UNION {{<<Tuple(t), Float(k)>> \o rest :
                     t \in Palette, rest \in Alternating(stops - 1, k + 1)} :
                 k \in lo..(PosScale - 1)}

ValidSeqs == UNION {Alternating(n, 1) : n \in 0..MaxStops}

\* datathon.py:23  the argument padded with the stops at 0.0 and 1.0
Padded(s) ==
    <<Tuple(<<None, None, None>>), Float(0)>> \o s
       \o <<Float(PosScale), Tuple(<<None, None, None>>)>>

\* datathon.py:27  r1, g1, b1 = seq[i - 1]
BeforeSwapped(full, i) == full[i + 1].rgb

Before(full, i) == full[i - 1].rgb

\* datathon.py:28  r2, g2, b2 = seq[i + 1]
AfterSwapped(full, i) == full[i - 1].rgb

After(full, i) == full[i + 1].rgb

\* datathon.py:25-26  the indices of the floats, in order
FloatIndices(full) ==
    SelectSeq([i \in 1..Len(full) |-> i], LAMBDA i : full[i].isfloat)

\* datathon.py:24-31  one row [item, left colour, right colour] per float
Rows(full, ch) ==
    LET idx == FloatIndices(full)
    IN [k \in 1..Len(idx) |->
           <<full[idx[k]].x, Before(full, idx[k])[ch], After(full, idx[k])[ch]>>]

MakeCdict(s) ==
    [red |-> Rows(Padded(s), 1), green |-> Rows(Padded(s), 2), blue |-> Rows(Padded(s), 3)]

\* The lookup table LinearSegmentedColormap derives from one channel's rows
\* (matplotlib's _create_lookup_table), with one entry per position
\* 0..PosScale.  Entries are exact: they are kept multiplied by Den, a
\* common multiple of every distance between two positions.
RECURSIVE Gcd(_, _)
Gcd(a, b) == IF b = 0 THEN a ELSE Gcd(b, a % b)

RECURSIVE LcmUpTo(_)
LcmUpTo(n) == IF n <= 1 THEN 1 ELSE (LcmUpTo(n - 1) * n) \div Gcd(LcmUpTo(n - 1), n)

Den == LcmUpTo(PosScale)

\* numpy.searchsorted(x, j): the first row whose position is >= j
SearchSorted(rows, j) ==
    CHOOSE k \in 1..Len(rows) :
        /\ rows[k][1] >= j
        /\ \A h \in 1..(k - 1) : rows[h][1] < j

LookupTable(rows) ==
    [j \in 0..PosScale |->
        IF j = 0 THEN rows[1][3] * Den
        ELSE IF j = PosScale THEN rows[Len(rows)][2] * Den
        ELSE LET k == SearchSorted(rows, j)
                 x0 == rows[k - 1][1]
                 x1 == rows[k][1]
                 y1 == rows[k - 1][3]
                 y0 == rows[k][2]
             IN ((j - x0) * (y0 - y1) * Den) \div (x1 - x0) + y1 * Den]

\* Calling the colormap with the float k / PosScale: entry int(x * N) of the
\* table of N = PosScale + 1 entries, clipped to the last one.
LutIndex(k) == Min(PosScale, (k * (PosScale + 1)) \div PosScale)

InitColormap ==
    /\ seq \in ValidSeqs
    /\ cdict = <<>>
    /\ lut = <<>>
    /\ cm_pc = "input"
    /\ at = 0
    /\ colour = <<>>

\* make_colormap(seq), datathon.py:18-32
MakeColormap ==
    /\ cm_pc = "input"
    /\ cdict' = MakeCdict(seq)
    /\ lut' = [ch \in 1..3 |-> LookupTable(MakeCdict(seq)[Channels[ch]])]
    /\ cm_pc' = "built"
    /\ UNCHANGED <<seq, at, colour>>
    /\ UNCHANGED otherThanColormap

\* The returned colormap called at position k / PosScale.
CallColormap(k) ==
    /\ cm_pc \in {"built", "called"}
    /\ at' = k
    /\ colour' = [ch \in 1..3 |-> lut[ch][LutIndex(k)]]
    /\ cm_pc' = "called"
    /\ UNCHANGED <<seq, cdict, lut>>
    /\ UNCHANGED otherThanColormap

NextColormap == MakeColormap \/ \E k \in 0..PosScale : CallColormap(k)

StartColormap == InitColormap /\ IdlePrune /\ IdleGraph /\ IdlePlot

SpecColormap == StartColormap /\ [][NextColormap]_vars

\* -------------------------------------------------- make_colormap: claims
FirstTriple == seq[1].rgb

LastTriple == seq[Len(seq)].rgb

\* The explicit positions of seq are its even items; stop n is row n + 1.
Stops == 1..((Len(seq) - 1) \div 2)

\* C4: for any valid argument the colormap called at 0.0 returns the first
\* explicit triple and called at 1.0 the last one, per channel: the stops
\* added at 0.0 and 1.0 take their colour from the nearest explicit triple.
C4_Endpoints ==
    /\ cm_pc \in {"built", "called"} =>
          \A ch \in 1..3 :
              LET rows == cdict[Channels[ch]]
              IN /\ rows[1][1] = 0
                 /\ rows[1][3] = FirstTriple[ch]
                 /\ rows[Len(rows)][1] = PosScale
                 /\ rows[Len(rows)][2] = LastTriple[ch]
    /\ (cm_pc = "called" /\ at = 0) =>
          \A ch \in 1..3 : colour[ch] = FirstTriple[ch] * Den
    /\ (cm_pc = "called" /\ at = PosScale) =>
          \A ch \in 1..3 : colour[ch] = LastTriple[ch] * Den

\* A gradient with two explicit positions and different end colours, called at 1.0.
C4_Witness ==
    /\ cm_pc = "called"
    /\ at = PosScale
    /\ Len(seq) = 5
    /\ FirstTriple # LastTriple
    /\ colour = [ch \in 1..3 |-> LastTriple[ch] * Den]

DigitStr == <<"0", "1", "2", "3", "4", "5", "6", "7", "8", "9">>

IsDigit(tok) == \E d \in 1..Len(DigitStr) : DigitStr[d] = tok

\* int(ii) for a token that is a digit
IntOf(tok) == (CHOOSE d \in 1..Len(DigitStr) : DigitStr[d] = tok) - 1

\* export_graphviz's label of a classification tree's node
ClassLabel(a, b) ==
    <<"gini = ..", "samples = ..", "value = [", DigitStr[a + 1], ",", DigitStr[b + 1], "]">>

\* export_graphviz's label of a regression tree's node: no bracketed list
RegressionLabel == <<"mse = ..", "samples = ..", "value = 0.5">>

ClassLabels ==
    {ClassLabel(a, b) : a \in 0..MaxCount, b \in 1..MaxCount}
    \cup {ClassLabel(a, 0) : a \in 1..MaxCount}

\* The statements "node [...]" and "edge [...]" of the exporter's output,
\* which the parser keeps as nodes: no label, no fill colour of their own.
PseudoNode == [label |-> <<>>, fillcolor |-> <<"unset", 0>>]

TreeNode(lbl, i) == [label |-> lbl, fillcolor |-> <<"exporter", i>>]

\* datathon.py:95-98  the graphs export_graphviz and graph_from_dot_data give
ParsedGraphs ==
    UNION {{<<PseudoNode, PseudoNode>> \o [i \in 1..n |-> TreeNode(f[i], i)] :
               f \in [1..n -> ClassLabels] \cup {[i \in 1..n |-> RegressionLabel]}} :
           n \in 1..MaxTreeNodes}

\* The cmap argument: None, or an array of rows x cols numbers; nonzero tells
\* whether the single element of a 1 x 1 array is nonzero.
NoCmap == [isNone |-> TRUE, rows |-> 0, cols |-> 0, nonzero |-> FALSE]

CmapArrays ==
    {[isNone |-> FALSE, rows |-> r, cols |-> c, nonzero |-> z] :
        r \in 1..MaxRows, c \in {1, 3, 4}, z \in BOOLEAN}

\* datathon.py:101  if cmap:  None is false; an array of one element is as
\* true as the element; numpy refuses the truth value of a larger array.
CmapTruthDropped(c) == "true"

CmapTruth(c) ==
    IF c.isNone THEN "false"
    ELSE IF c.rows * c.cols = 1 THEN (IF c.nonzero THEN "true" ELSE "false")
    ELSE "ValueError"

\* The first index of tok in tokens, 0 when it is not there.
IndexOf(tokens, tok) ==
    IF \E i \in 1..Len(tokens) : tokens[i] = tok
    THEN CHOOSE i \in 1..Len(tokens) :
            tokens[i] = tok /\ \A h \in 1..(i - 1) : tokens[h] # tok
    ELSE 0

\* datathon.py:110-111  label.split('value = [')[1].split(']')[0].split(',')
ValueFields(label) ==
    LET from == IndexOf(label, "value = [")
        rest == SubSeq(label, from + 1, Len(label))
        stop == IndexOf(rest, "]")
        list == IF stop = 0 THEN rest ELSE SubSeq(rest, 1, stop - 1)
    IN SelectSeq(list, LAMBDA t : t # ",")

\* What colouring one labelled node raises, "none" when it succeeds.
NodeError(label) ==
    IF IndexOf(label, "value = [") = 0 THEN "IndexError"
    ELSE IF \E i \in 1..Len(ValueFields(label)) : ~IsDigit(ValueFields(label)[i])
         THEN "ValueError"
    ELSE IF Len(ValueFields(label)) < 2 THEN "IndexError"
    ELSE "none"

RECURSIVE Sum(_)
Sum(q) == IF q = <<>> THEN 0 ELSE q[1] + Sum(Tail(q))

\* datathon.py:113-116  the proportion of class 2 and its entry in coolwarm's
\* table of 256 colours
CoolwarmEntries == 256

CoolwarmIndex(label) ==
    LET num_samples == [i \in 1..Len(ValueFields(label)) |-> IntOf(ValueFields(label)[i])]
    IN Min(CoolwarmEntries - 1, (num_samples[2] * CoolwarmEntries) \div Sum(num_samples))

\* datathon.py:108  if node.get_label()
HasLabel(node) == node.label # <<>>

\* datathon.py:106-120  the loop: it stops at the first node that raises
Recoloured(ns) ==
    LET failing == {i \in 1..Len(ns) : HasLabel(ns[i]) /\ NodeError(ns[i].label) # "none"}
        first == IF failing = {} THEN Len(ns) + 1
                 ELSE CHOOSE i \in failing : \A h \in failing : i <= h
    IN [error |-> IF failing = {} THEN "none" ELSE NodeError(ns[first].label),
        nodes |-> [i \in 1..Len(ns) |->
                     IF i < first /\ HasLabel(ns[i])
                     THEN [ns[i] EXCEPT !.fillcolor = <<"coolwarm", CoolwarmIndex(ns[i].label)>>]
                     ELSE ns[i]]]

InitGraph ==
    /\ nodes \in ParsedGraphs
    /\ exported = nodes
    /\ cmap \in {NoCmap} \cup CmapArrays
    /\ g_pc = "input"
    /\ g_result = "none"
    /\ rendered = FALSE

\* create_graph(mdl, feature_names, cmap), datathon.py:86-123
CreateGraph ==
    /\ g_pc = "input"
    /\ g_pc' = "done"
    /\ CASE CmapTruth(cmap) = "ValueError" ->
              /\ g_result' = "ValueError"
              /\ UNCHANGED <<nodes, rendered>>
         [] CmapTruth(cmap) = "false" ->
              /\ g_result' = "returned"
              /\ rendered' = TRUE
              /\ UNCHANGED nodes
         [] CmapTruth(cmap) = "true" /\ cmap.isNone ->
              \* cmap.shape of None
              /\ g_result' = "AttributeError"
              /\ UNCHANGED <<nodes, rendered>>
         [] OTHER ->
              /\ nodes' = Recoloured(nodes).nodes
              /\ IF Recoloured(nodes).error = "none"
                 THEN g_result' = "returned" /\ rendered' = TRUE
                 ELSE g_result' = Recoloured(nodes).error /\ UNCHANGED rendered
    /\ UNCHANGED <<exported, cmap>>
    /\ UNCHANGED otherThanGraph

NextGraph == CreateGraph

StartGraph == InitGraph /\ IdlePrune /\ IdleColormap /\ IdlePlot

SpecGraph == StartGraph /\ [][NextGraph]_vars

\* --------------------------------------------------- create_graph: claims
\* C6: create_graph called with cmap=None leaves every node's fill colour as
\* the exporter assigned it, renders the graph and returns it.
C6_NoCmapKeepsFill ==
    (g_pc = "done" /\ cmap.isNone) =>
        /\ \A i \in 1..Len(nodes) : nodes[i].fillcolor = exported[i].fillcolor
        /\ nodes = exported
        /\ rendered
        /\ g_result = "returned"

\* A finished call without a colormap on a graph of a classification tree.
C6_Witness ==
    /\ g_pc = "done"
    /\ cmap.isNone
    /\ g_result = "returned"
    /\ Len(nodes) = 4
    /\ nodes[3].label \in ClassLabels
    /\ nodes[3].fillcolor = <<"exporter", 1>>

\* C7: create_graph called with a colormap array (rows of RGB or RGBA
\* values) on a classification tree's graph recolours every node that
\* carries a label with the coolwarm colour of count[1] / sum(counts), read
\* from the label's "value = [...]", leaves the nodes without a label as
\* they were, and returns the graph.
C7_ArrayRecolours ==
    (g_pc = "done" /\ ~cmap.isNone /\ cmap.cols \in {3, 4}
        /\ \A i \in 1..Len(exported) : exported[i].label \in ClassLabels \cup {<<>>}) =>
        /\ g_result = "returned"
        /\ \A i \in 1..Len(nodes) :
              IF HasLabel(nodes[i])
              THEN nodes[i].fillcolor = <<"coolwarm", CoolwarmIndex(nodes[i].label)>>
              ELSE nodes[i] = exported[i]

\* ----------------------------------------------------- plot_model_pred_2d
\* datathon.py:49-50  the grid has GridSide points along each feature
GridSide == 100

\* datathon.py:55  if not cm
NeedsDefaultColormap(args) == ~args.cm

\* datathon.py:76  if xlabel is not None
WantsXlabel(args) == args.xlabel

\* datathon.py:78  if ylabel is not None
WantsYlabel(args) == args.ylabel

\* datathon.py:82  if cbar
WantsColorbarAlways(args) == TRUE

WantsColorbar(args) == args.cbar

InitPlot ==
    /\ p_args \in [cm : BOOLEAN, cbar : BOOLEAN, xlabel : BOOLEAN, ylabel : BOOLEAN]
    /\ p_pc = "minmax"
    /\ log = <<>>
    /\ p_err = "none"
    /\ predict_calls = 0
    /\ predict_rows = 0
    /\ cm_source = "unset"

\* datathon.py:44-50  the feature ranges and the grid
Meshgrid ==
    /\ p_pc = "minmax"
    /\ p_pc' = "predict"
    /\ UNCHANGED <<p_args, log, p_err, predict_calls, predict_rows, cm_source>>
    /\ UNCHANGED otherThanPlot

\* datathon.py:52-53  mdl.predict on every grid point returns
PredictReturns ==
    /\ p_pc = "predict"
    /\ predict_calls' = predict_calls + 1
    /\ predict_rows' = GridSide * GridSide
    /\ p_pc' = "colormap"
    /\ UNCHANGED <<p_args, log, p_err, cm_source>>
    /\ UNCHANGED otherThanPlot

\* datathon.py:52  mdl.predict raises: nothing catches it
PredictRaises ==
    /\ p_pc = "predict"
    /\ predict_calls' = predict_calls + 1
    /\ predict_rows' = GridSide * GridSide
    /\ p_pc' = "raised"
    /\ p_err' = "predict"
    /\ UNCHANGED <<p_args, log, cm_source>>
    /\ UNCHANGED otherThanPlot

\* datathon.py:55-66  the default gradient when no colormap was passed
ChooseColormap ==
    /\ p_pc = "colormap"
    /\ cm_source' = IF NeedsDefaultColormap(p_args) THEN "default" ELSE "given"
    /\ p_pc' = "contourf"
    /\ UNCHANGED <<p_args, log, p_err, predict_calls, predict_rows>>
    /\ UNCHANGED otherThanPlot

\* datathon.py:69  plt.contourf
Contourf ==
    /\ p_pc = "contourf"
    /\ log' = Append(log, "contourf")
    /\ p_pc' = "scatter"
    /\ UNCHANGED <<p_args, p_err, predict_calls, predict_rows, cm_source>>
    /\ UNCHANGED otherThanPlot

\* datathon.py:72-74  plt.scatter of the points, coloured by y
Scatter ==
    /\ p_pc = "scatter"
    /\ log' = Append(log, "scatter")
    /\ p_pc' = "labels"
    /\ UNCHANGED <<p_args, p_err, predict_calls, predict_rows, cm_source>>
    /\ UNCHANGED otherThanPlot

\* datathon.py:76-80  the axis labels that were passed, then plt.axis("tight")
AxisLabels ==
    /\ p_pc = "labels"
    /\ log' = log \o (IF WantsXlabel(p_args) THEN <<"xlabel">> ELSE <<>>)
                  \o (IF WantsYlabel(p_args) THEN <<"ylabel">> ELSE <<>>)
                  \o <<"axis">>
    /\ p_pc' = "colorbar"
    /\ UNCHANGED <<p_args, p_err, predict_calls, predict_rows, cm_source>>
    /\ UNCHANGED otherThanPlot

\* datathon.py:82-83  plt.colorbar when cbar, and the function returns
Colorbar ==
    /\ p_pc = "colorbar"
    /\ log' = IF WantsColorbar(p_args) THEN Append(log, "colorbar") ELSE log
    /\ p_pc' = "done"
    /\ UNCHANGED <<p_args, p_err, predict_calls, predict_rows, cm_source>>
    /\ UNCHANGED otherThanPlot

\* datathon.py:69-83  a plotting call raises: nothing catches it
PlotRaises ==
    /\ p_pc \in {"contourf", "scatter", "labels", "colorbar"}
    /\ p_pc' = "raised"
    /\ p_err' = "plot"
    /\ UNCHANGED <<p_args, log, predict_calls, predict_rows, cm_source>>
    /\ UNCHANGED otherThanPlot

NextPlot ==
    \/ Meshgrid
    \/ PredictReturns
    \/ PredictRaises
    \/ ChooseColormap
    \/ Contourf
    \/ Scatter
    \/ AxisLabels
    \/ Colorbar
    \/ PlotRaises

StartPlot == InitPlot /\ IdlePrune /\ IdleColormap /\ IdleGraph

SpecPlot == StartPlot /\ [][NextPlot]_vars

\* --------------------------------------------- plot_model_pred_2d: claims
\* The drawing calls of a call that returns, in order.
ExpectedDrawing(args) ==
    <<"contourf", "scatter">>
       \o (IF args.xlabel THEN <<"xlabel">> ELSE <<>>)
       \o (IF args.ylabel THEN <<"ylabel">> ELSE <<>>)
       \o (IF args.cbar THEN <<"colorbar">> ELSE <<>>)

\* The contour, scatter, axis-label and colour-bar calls made so far.
Drawn == SelectSeq(log, LAMBDA c : c # "axis")

IsPrefix(a, b) == Len(a) <= Len(b) /\ a = SubSeq(b, 1, Len(a))

\* C8: mdl.predict is called exactly once, on the full grid of 100 x 100
\* points, before any drawing; when it raises, the error reaches the caller,
\* predict is not called again and nothing has been drawn; when it returns,
\* the drawing calls are the filled contours, the scatter, the axis labels
\* that were passed, and the colour bar only when cbar is true, in that order.
C8_PredictOnceThenDraw ==
    /\ predict_calls <= 1
    /\ Drawn # <<>> => predict_calls = 1
    /\ predict_calls = 1 => predict_rows = 10000
    /\ IsPrefix(Drawn, ExpectedDrawing(p_args))
    /\ p_err = "predict" => (p_pc = "raised" /\ log = <<>> /\ predict_calls = 1)
    /\ p_pc = "done" =>
          /\ Drawn = ExpectedDrawing(p_args)
          /\ predict_calls = 1
          /\ p_err = "none"

\* A call that returned without a colour bar, with only the x label passed.
C8_Witness ==
    /\ p_pc = "done"
    /\ ~p_args.cbar
    /\ p_args.xlabel
    /\ ~p_args.ylabel
    /\ predict_calls = 1
    /\ log = <<"contourf", "scatter", "xlabel", "axis">>

====
